---- MODULE Spec2Model ----
(***************************************************************************)
(* Buffer objects (GbmBuffer), scanout buffers (DrmGbmBuffer) and the      *)
(* current/next buffer slot of a CRTC (DrmCrtc) of the KWin DRM backend.   *)
(*                                                                         *)
(* Every buffer object keeps a log of the calls it issues to the kernel,   *)
(* the gbm driver, its pool (GbmSurface) and its client buffer, in the     *)
(* order the code issues them.                                             *)
(***************************************************************************)
EXTENDS Integers, Sequences, FiniteSets, TLC

VARIABLES obj, log, strong, held, m_currentBuffer, m_nextBuffer,
          ret, superseded, d, effects

vars == <<obj, log, strong, held, m_currentBuffer, m_nextBuffer,
          ret, superseded, d, effects>>

\* ---------------------------------------------------------------- bounds
NumBuffers == 2      \* buffer objects handed to the slot
MaxMapCalls == 2     \* gbm_bo_map driver calls issued per buffer object
MaxPlanes == 2       \* planes of an imported client buffer
NumWindows == 3      \* windows a DeformEffect is asked to redirect

\* ------------------------------------------------------------- constants
\* drm_fourcc.h: 0x00ffffffffffffff; only its low 24 bits are kept here, the
\* modifiers of the model stay distinct from it
DRM_FORMAT_MOD_INVALID == 16777215
NULL == 0

Modifiers == {0, DRM_FORMAT_MOD_INVALID}
Gpus == {1, 2}
Errnos == {"EINVAL", "EIO"}
Formats == {"XR24", "NV12"}

\* DrmGpu::fd() and DrmGpu::addFB2ModifiersSupported(): device 1 supports
\* modifier-aware framebuffer registration, device 2 does not.
fd(gpu) == gpu
addFB2ModifiersSupported(gpu) == gpu = 1

\* ret: the last call made, the buffer it was made with and the value it
\* returned; arg is the flags of a map call, the pointer a setNext or
\* flipBuffer call replaced, and the planes of the client buffer and the
\* outcome of gbm_bo_import of a construction from a client buffer

\* one logged call: its name, the device it is issued on (0: none), one
\* argument and whether it succeeded
E(call, dev, arg, ok) == [call |-> call, fd |-> dev, arg |-> arg, ok |-> ok]

\* a buffer object before its constructor has run
NoObject ==
    [life |-> "none", m_gpu |-> 0, m_surface |-> FALSE, m_clientBuffer |-> FALSE,
     m_bo |-> FALSE, m_data |-> NULL, m_mapping |-> NULL, m_stride |-> 0,
     m_bufferId |-> 0, m_modifier |-> 0, plane0 |-> FALSE, userData |-> NULL,
     m_format |-> "", boHandle |-> 0]

\* ------------------------------------------------------------ GbmBuffer
\* a variant of releaseBuffer that leaves m_bo and m_surface set
releaseBuffer_keepsHandle(s) ==
    LET s1 == IF s.o.m_clientBuffer
              THEN [o |-> [s.o EXCEPT !.m_clientBuffer = FALSE],
                    l |-> Append(s.l, E("unref", 0, 0, TRUE))]
              ELSE s
    IN  IF ~s1.o.m_bo
        THEN s1
        ELSE LET l2 == IF s1.o.m_mapping # NULL
                       THEN Append(s1.l, E("gbm_bo_unmap", 0, s1.o.m_mapping, TRUE))
                       ELSE s1.l
             IN  IF s1.o.m_surface
                 THEN [o |-> s1.o, l |-> Append(l2, E("surface_releaseBuffer", 0, 0, TRUE))]
                 ELSE [o |-> s1.o, l |-> Append(l2, E("gbm_bo_destroy", 0, 0, TRUE))]

\* a variant of releaseBuffer that returns on an absent native handle before
\* it drops the client buffer
releaseBuffer_earlyReturn(s) ==
    IF ~s.o.m_bo
    THEN s
    ELSE LET s1 == IF s.o.m_clientBuffer
                   THEN [o |-> [s.o EXCEPT !.m_clientBuffer = FALSE],
                         l |-> Append(s.l, E("unref", 0, 0, TRUE))]
                   ELSE s
             l2 == IF s1.o.m_mapping # NULL
                   THEN Append(s1.l, E("gbm_bo_unmap", 0, s1.o.m_mapping, TRUE))
                   ELSE s1.l
         IN  IF s1.o.m_surface
             THEN [o |-> [s1.o EXCEPT !.m_surface = FALSE, !.m_bo = FALSE],
                   l |-> Append(l2, E("surface_releaseBuffer", 0, 0, TRUE))]
             ELSE [o |-> [s1.o EXCEPT !.m_bo = FALSE],
                   l |-> Append(l2, E("gbm_bo_destroy", 0, 0, TRUE))]

\* GbmBuffer::releaseBuffer on s = [o |-> object, l |-> its log]
releaseBuffer(s) ==
    LET s1 == IF s.o.m_clientBuffer
              THEN [o |-> [s.o EXCEPT !.m_clientBuffer = FALSE],
                    l |-> Append(s.l, E("unref", 0, 0, TRUE))]
              ELSE s
    IN  IF ~s1.o.m_bo
        THEN s1
        ELSE LET l2 == IF s1.o.m_mapping # NULL
                       THEN Append(s1.l, E("gbm_bo_unmap", 0, s1.o.m_mapping, TRUE))
                       ELSE s1.l
             IN  IF s1.o.m_surface
                 THEN [o |-> [s1.o EXCEPT !.m_surface = FALSE, !.m_bo = FALSE],
                       l |-> Append(l2, E("surface_releaseBuffer", 0, 0, TRUE))]
                 ELSE [o |-> [s1.o EXCEPT !.m_bo = FALSE],
                       l |-> Append(l2, E("gbm_bo_destroy", 0, 0, TRUE))]

\* a variant of map that maps again although a mapping is recorded
map_again(s, flags, drv) ==
    IF ~s.o.m_bo
    THEN [o |-> s.o, l |-> s.l, r |-> FALSE]
    ELSE [o |-> IF drv # NULL
                THEN [s.o EXCEPT !.m_data = drv, !.m_mapping = drv, !.m_stride = 2]
                ELSE s.o,
          l |-> Append(s.l, E("gbm_bo_map", 0, flags, drv # NULL)),
          r |-> drv # NULL]

\* GbmBuffer::map; drv is the address gbm_bo_map returns (NULL: it fails).
\* The result is [o, l, r] with r the returned bool.
map(s, flags, drv) ==
    IF s.o.m_data # NULL
    THEN [o |-> s.o, l |-> s.l, r |-> TRUE]
    ELSE IF ~s.o.m_bo
    THEN [o |-> s.o, l |-> s.l, r |-> FALSE]
    ELSE [o |-> IF drv # NULL
                THEN [s.o EXCEPT !.m_data = drv, !.m_mapping = drv, !.m_stride = 2]
                ELSE s.o,
          l |-> Append(s.l, E("gbm_bo_map", 0, flags, drv # NULL)),
          r |-> drv # NULL]

\* GbmBuffer::mappedData
mappedData(o) == o.m_data


\* GbmBuffer::GbmBuffer(GbmSurface *, gbm_bo *): a buffer allocated by a pool
GbmBufferFromSurface(o) ==
    [o EXCEPT !.m_surface = TRUE, !.m_bo = TRUE, !.m_stride = 1]

\* a variant of importPath that does not look at the offset of the first plane
importPath_ignoresOffset(planes) ==
    IF planes.modifier # DRM_FORMAT_MOD_INVALID \/ planes.count > 1
    THEN "GBM_BO_IMPORT_FD_MODIFIER"
    ELSE "GBM_BO_IMPORT_FD"

\* the import path the constructor selects for the client buffer's planes
importPath(planes) ==
    IF planes.modifier # DRM_FORMAT_MOD_INVALID \/ planes.offset > 0 \/ planes.count > 1
    THEN "GBM_BO_IMPORT_FD_MODIFIER"
    ELSE "GBM_BO_IMPORT_FD"

\* a variant of GbmBufferFromClient that warns about every failed import
GbmBufferFromClient_warnsAlways(s, planes, imp) ==
    LET l1 == Append(s.l, E("ref", 0, 0, TRUE))
        l2 == Append(l1, E(importPath(planes), fd(s.o.m_gpu),
                           [num_fds |-> planes.count, usage |-> "GBM_BO_USE_SCANOUT"],
                           imp = "ok"))
    IN  IF imp = "ok"
        THEN [o |-> [s.o EXCEPT !.m_clientBuffer = TRUE, !.m_bo = TRUE, !.m_stride = 1],
              l |-> l2]
        ELSE [o |-> [s.o EXCEPT !.m_clientBuffer = TRUE],
              l |-> Append(l2, E("qCWarning", 0, 0, TRUE))]

\* GbmBuffer::GbmBuffer(DrmGpu *, LinuxDmaBufV1ClientBuffer *); imp is the
\* outcome of gbm_bo_import: "ok" or the errno it fails with.
GbmBufferFromClient(s, planes, imp) ==
    LET l1 == Append(s.l, E("ref", 0, 0, TRUE))
        l2 == Append(l1, E(importPath(planes), fd(s.o.m_gpu),
                              [num_fds |-> planes.count, usage |-> "GBM_BO_USE_SCANOUT"],
                              imp = "ok"))
    IN  IF imp = "ok"
        THEN [o |-> [s.o EXCEPT !.m_clientBuffer = TRUE, !.m_bo = TRUE, !.m_stride = 1],
              l |-> l2]
        ELSE [o |-> [s.o EXCEPT !.m_clientBuffer = TRUE],
              l |-> IF imp # "EINVAL" THEN Append(l2, E("qCWarning", 0, 0, TRUE)) ELSE l2]

\* --------------------------------------------------------- DrmGbmBuffer
\* modifiers[0] as DrmGbmBuffer::initialize fills it in.  o.plane0:
\* gbm_bo_get_handle_for_plane(m_bo, 0) is valid.
modifier0(o) == IF o.plane0 THEN o.m_modifier ELSE DRM_FORMAT_MOD_INVALID

\* a variant of critical that reports for every buffer
critical_always(o, l) ==
    Append(l, E("qCCritical", fd(o.m_gpu),
                [format |-> o.m_format, modifier |-> modifier0(o)], TRUE))

\* the diagnostic of a failed registration, printed for pool buffers only
critical(o, l) ==
    IF o.m_surface
    THEN Append(l, E("qCCritical", fd(o.m_gpu),
                     [format |-> o.m_format, modifier |-> modifier0(o)], TRUE))
    ELSE l

\* a variant of legacyArgs that derives depth and bits per pixel from the
\* pixel format
legacyArgs_fromFormat(o) ==
    [depth |-> IF o.m_format = "XR24" THEN 24 ELSE 8,
     bpp |-> IF o.m_format = "XR24" THEN 32 ELSE 8,
     stride |-> o.m_stride, handle |-> o.boHandle]

\* the depth, bits per pixel, stride and handle passed to drmModeAddFB
legacyArgs(o) ==
    [depth |-> 24, bpp |-> 32, stride |-> o.m_stride, handle |-> o.boHandle]

\* a variant of registerFramebuffer that falls back to the plain calls
\* when the modifier-aware call fails
registerFramebuffer_fallback(s, r, id) ==
    LET dev == fd(s.o.m_gpu)
        lm == IF modifier0(s.o) # DRM_FORMAT_MOD_INVALID /\ addFB2ModifiersSupported(s.o.m_gpu)
              THEN Append(s.l, E("drmModeAddFB2WithModifiers", dev, modifier0(s.o), r.mod))
              ELSE s.l
    IN  IF lm # s.l /\ r.mod
        THEN [l |-> lm, id |-> id]
        ELSE LET l1 == Append(lm, E("drmModeAddFB2", dev, s.o.m_format, r.fb2))
             IN  IF r.fb2
                 THEN [l |-> l1, id |-> id]
                 ELSE LET l2 == Append(l1, E("drmModeAddFB", dev, legacyArgs(s.o), r.fb))
                      IN  IF r.fb
                          THEN [l |-> l2, id |-> id]
                          ELSE [l |-> critical(s.o, l2), id |-> 0]

\* the registration calls of DrmGbmBuffer::initialize.  r.mod, r.fb2, r.fb:
\* the call succeeds; id: the framebuffer identifier the kernel hands out
\* on success.  The result is [l, id]: the log and the value of m_bufferId.
registerFramebuffer(s, r, id) ==
    LET dev == fd(s.o.m_gpu)
    IN  IF modifier0(s.o) # DRM_FORMAT_MOD_INVALID /\ addFB2ModifiersSupported(s.o.m_gpu)
        THEN LET l1 == Append(s.l, E("drmModeAddFB2WithModifiers", dev, modifier0(s.o), r.mod))
             IN  IF r.mod
                 THEN [l |-> l1, id |-> id]
                 ELSE [l |-> critical(s.o, l1), id |-> s.o.m_bufferId]
        ELSE LET l1 == Append(s.l, E("drmModeAddFB2", dev, s.o.m_format, r.fb2))
             IN  IF r.fb2
                 THEN [l |-> l1, id |-> id]
                 ELSE LET l2 == Append(l1, E("drmModeAddFB", dev, legacyArgs(s.o), r.fb))
                      IN  IF r.fb
                          THEN [l |-> l2, id |-> id]
                          ELSE [l |-> critical(s.o, l2), id |-> s.o.m_bufferId]

\* DrmGbmBuffer::initialize
initialize(s, r, id) ==
    IF ~s.o.m_bo
    THEN s
    ELSE LET reg == registerFramebuffer(s, r, id)
         IN  [o |-> [s.o EXCEPT !.m_bufferId = reg.id, !.userData = 1],
              l |-> Append(reg.l, E("gbm_bo_set_user_data", 0, 0, TRUE))]

\* a variant of destructor that deregisters without looking at m_bufferId
destructor_unconditional(s) ==
    LET s1 == [o |-> s.o,
               l |-> Append(s.l, E("drmModeRmFB", fd(s.o.m_gpu), s.o.m_bufferId, TRUE))]
        s2 == releaseBuffer(s1)
    IN  [o |-> [s2.o EXCEPT !.life = "destroyed"], l |-> s2.l]

\* DrmGbmBuffer::~DrmGbmBuffer, then the base destructor GbmBuffer::~GbmBuffer
destructor(s) ==
    LET s1 == IF s.o.m_bufferId # 0
              THEN [o |-> s.o,
                    l |-> Append(s.l, E("drmModeRmFB", fd(s.o.m_gpu), s.o.m_bufferId, TRUE))]
              ELSE s
        s2 == releaseBuffer(s1)
    IN  [o |-> [s2.o EXCEPT !.life = "destroyed"], l |-> s2.l]


\* ------------------------------------------------- QSharedPointer<DrmBuffer>
\* h = [obj, log, strong]: the buffer objects, their logs and the number of
\* QSharedPointers that own each of them.
Heap == [obj |-> obj, log |-> log, strong |-> strong]

\* the last owner goes away: the destruction chain of buffer b runs
destroy(h, b) ==
    LET s == destructor([o |-> h.obj[b], l |-> h.log[b]])
    IN  [h EXCEPT !.obj[b] = s.o, !.log[b] = s.l]

ref(h, b) ==
    IF b = NULL THEN h ELSE [h EXCEPT !.strong[b] = @ + 1]

deref(h, b) ==
    IF b = NULL
    THEN h
    ELSE LET h1 == [h EXCEPT !.strong[b] = @ - 1]
         IN  IF h1.strong[b] = 0 THEN destroy(h1, b) ELSE h1

\* a variant of assign that drops the old pointer before it copies the new one
assign_dropsFirst(h, old, new) == ref(deref(h, old), new)

\* QSharedPointer::operator=: a copy of the new pointer is taken before the
\* old one is dropped
assign(h, old, new) == deref(ref(h, new), old)

\* ---------------------------------------------------------------- DrmCrtc
\* a variant of setNext that keeps a pending buffer
setNext_keepsPending(h, next, buffer) ==
    IF next # NULL
    THEN [h |-> h, next |-> next]
    ELSE [h |-> assign(h, next, buffer), next |-> buffer]

\* a variant of setNext that never drops the pointer it replaces
setNext_leaksPending(h, next, buffer) ==
    [h |-> ref(h, buffer), next |-> buffer]

\* DrmCrtc::setNext; the result is [h, next]
setNext(h, next, buffer) ==
    [h |-> assign(h, next, buffer), next |-> buffer]

\* a variant of flipBuffer that also promotes an empty next
flipBuffer_promotesEmpty(h, current, next) ==
    [h |-> deref(h, current), current |-> next, next |-> NULL]

\* DrmCrtc::flipBuffer; the result is [h, current, next]
flipBuffer(h, current, next) ==
    IF next = NULL
    THEN [h |-> h, current |-> current, next |-> next]
    ELSE [h |-> deref(h, current), current |-> next, next |-> NULL]

\* ---------------------------------------------------------------- actions
Ids == DOMAIN obj
Alive(b) == obj[b].life = "alive"
MapCalls(l) == Cardinality({i \in 1..Len(l) : l[i].call = "gbm_bo_map"})
Result(op, b, val) == [op |-> op, buf |-> b, val |-> val, arg |-> 0]

\* the framebuffer identifier the kernel hands out for buffer b: non-zero and
\* different for every registered buffer
FbId(b) == b

\* the GEM handle of plane 0 of the native buffer of buffer b
GemHandle(b) == b + 10

Install(h) ==
    /\ obj' = h.obj
    /\ log' = h.log
    /\ strong' = h.strong

\* QSharedPointer<DrmGbmBuffer>::create(gpu, surface, bo)
ConstructPool(b, gpu, format, modifier, plane0, r) ==
    /\ obj[b].life = "none"
    /\ LET o0 == [NoObject EXCEPT !.life = "alive", !.m_gpu = gpu, !.m_modifier = modifier,
                                  !.m_format = format, !.boHandle = GemHandle(b),
                                  !.plane0 = plane0]
           s == initialize([o |-> GbmBufferFromSurface(o0), l |-> log[b]],
                           r, FbId(b))
       IN  /\ obj' = [obj EXCEPT ![b] = s.o]
           /\ log' = [log EXCEPT ![b] = s.l]
    /\ strong' = [strong EXCEPT ![b] = 1]
    /\ held' = [held EXCEPT ![b] = TRUE]
    /\ ret' = Result("create", b, TRUE)
    /\ UNCHANGED <<m_currentBuffer, m_nextBuffer, superseded>>
    /\ UNCHANGED <<d, effects>>

\* QSharedPointer<DrmGbmBuffer>::create(gpu, clientBuffer)
ConstructImport(b, gpu, format, planes, imp, plane0, r) ==
    /\ obj[b].life = "none"
    /\ LET o0 == [NoObject EXCEPT !.life = "alive", !.m_gpu = gpu,
                                  !.m_modifier = planes.modifier, !.plane0 = plane0,
                                  !.m_format = format, !.boHandle = GemHandle(b)]
           s == initialize(GbmBufferFromClient([o |-> o0, l |-> log[b]], planes, imp),
                           r, FbId(b))
       IN  /\ obj' = [obj EXCEPT ![b] = s.o]
           /\ log' = [log EXCEPT ![b] = s.l]
    /\ strong' = [strong EXCEPT ![b] = 1]
    /\ held' = [held EXCEPT ![b] = TRUE]
    /\ ret' = [Result("import", b, TRUE) EXCEPT !.arg = [planes |-> planes, imp |-> imp]]
    /\ UNCHANGED <<m_currentBuffer, m_nextBuffer, superseded>>
    /\ UNCHANGED <<d, effects>>

\* buffer->map(flags)
Map(b, flags, drv) ==
    /\ Alive(b)
    /\ LET s == map([o |-> obj[b], l |-> log[b]], flags, drv)
       IN  /\ MapCalls(s.l) <= MaxMapCalls
           /\ obj' = [obj EXCEPT ![b] = s.o]
           /\ log' = [log EXCEPT ![b] = s.l]
           /\ ret' = [Result("map", b, s.r) EXCEPT !.arg = flags]
    /\ UNCHANGED <<strong, held, m_currentBuffer, m_nextBuffer, superseded>>
    /\ UNCHANGED <<d, effects>>

\* buffer->releaseBuffer(), called by the pool or the backend
ReleaseBuffer(b) ==
    /\ Alive(b)
    /\ LET s == releaseBuffer([o |-> obj[b], l |-> log[b]])
       IN  /\ obj' = [obj EXCEPT ![b] = s.o]
           /\ log' = [log EXCEPT ![b] = s.l]
    /\ ret' = Result("releaseBuffer", b, TRUE)
    /\ UNCHANGED <<strong, held, m_currentBuffer, m_nextBuffer, superseded>>
    /\ UNCHANGED <<d, effects>>

\* the creator of the buffer drops its QSharedPointer
DropOwner(b) ==
    /\ held[b]
    /\ held' = [held EXCEPT ![b] = FALSE]
    /\ Install(deref(Heap, b))
    /\ ret' = Result("drop", b, TRUE)
    /\ UNCHANGED <<m_currentBuffer, m_nextBuffer, superseded>>
    /\ UNCHANGED <<d, effects>>

\* crtc->setNext(buffer); the caller owns a pointer to the buffer it passes
SetNext(buffer) ==
    /\ buffer # NULL => Alive(buffer) /\ strong[buffer] > 0
    /\ LET n == setNext(Heap, m_nextBuffer, buffer)
       IN  /\ Install(n.h)
           /\ m_nextBuffer' = n.next
    /\ superseded' = (superseded \cup
                        (IF m_nextBuffer # NULL /\ m_nextBuffer # buffer
                         THEN {m_nextBuffer} ELSE {})) \ {buffer}
    /\ ret' = [Result("setNext", buffer, TRUE) EXCEPT !.arg = m_nextBuffer]
    /\ UNCHANGED <<held, m_currentBuffer>>
    /\ UNCHANGED <<d, effects>>

\* crtc->flipBuffer(), called after the page flip completed
FlipBuffer ==
    /\ LET f == flipBuffer(Heap, m_currentBuffer, m_nextBuffer)
       IN  /\ Install(f.h)
           /\ m_currentBuffer' = f.current
           /\ m_nextBuffer' = f.next
    /\ ret' = [Result("flipBuffer", m_nextBuffer, m_nextBuffer # NULL)
                 EXCEPT !.arg = m_currentBuffer]
    /\ UNCHANGED <<held, superseded>>
    /\ UNCHANGED <<d, effects>>

\* DrmGbmBuffer::hasBo
hasBo(o) == o.m_bo

\* a DrmBuffer that is not a DrmGbmBuffer, e.g. a DrmDumbBuffer
OtherBuffer == NumBuffers + 1

\* a variant of needsModeChange that asks for no mode change when the
\* other buffer is of another kind
needsModeChange_sameKindOnly(a, b) ==
    IF b \in Ids
    THEN hasBo(obj[a]) # hasBo(obj[b])
    ELSE FALSE

\* DrmGbmBuffer::needsModeChange, called on buffer a with the DrmBuffer b:
\* the dynamic_cast succeeds exactly for the DrmGbmBuffer objects
needsModeChange(a, b) ==
    IF b \in Ids
    THEN hasBo(obj[a]) # hasBo(obj[b])
    ELSE TRUE

\* a->needsModeChange(b)
NeedsModeChange(a, b) ==
    /\ Alive(a)
    /\ b \in Ids => Alive(b)
    /\ ret' = [Result("needsModeChange", a, needsModeChange(a, b)) EXCEPT !.arg = b]
    /\ UNCHANGED <<obj, log, strong, held, m_currentBuffer, m_nextBuffer, superseded>>
    /\ UNCHANGED <<d, effects>>

\* ------------------------------------------------------------ DeformEffect
\* d: the DeformEffectPrivate of one DeformEffect.  d.windows is the QHash
\* of redirected windows, a function from its keys to the DeformOffscreenData
\* they point to; the two connection handles are TRUE while they name a
\* connection.
\* effects: the EffectsHandler and the heap: the windows that exist, the
\* number of connections of the effect to each of the two signals and, for
\* every window, the number of DeformOffscreenData allocated for it and not
\* deleted.
Windows == 1..NumWindows

NoDeform ==
    [windows |-> << >>, windowDamagedConnection |-> FALSE,
     windowDeletedConnection |-> FALSE, live |-> TRUE]

NoEffects ==
    [exists |-> [w \in Windows |-> TRUE], windowDamaged |-> 0, windowDeleted |-> 0,
     offscreen |-> [w \in Windows |-> 0]]

\* a new DeformOffscreenData
NewOffscreenData == [isDirty |-> TRUE]

\* QHash::insert and QHash::take on d.windows
Insert(f, w, v) == [k \in DOMAIN f \cup {w} |-> IF k = w THEN v ELSE f[k]]
Take(f, w) == [k \in DOMAIN f \ {w} |-> f[k]]

\* DeformEffect::setupConnections on s = [d, fx]
setupConnections(s) ==
    LET s1 == IF s.d.live
              THEN [d |-> [s.d EXCEPT !.windowDamagedConnection = TRUE],
                    fx |-> [s.fx EXCEPT !.windowDamaged = @ + 1]]
              ELSE s
    IN  [d |-> [s1.d EXCEPT !.windowDeletedConnection = TRUE],
         fx |-> [s1.fx EXCEPT !.windowDeleted = @ + 1]]

\* DeformEffect::destroyConnections; disconnect of an empty handle does nothing
destroyConnections(s) ==
    [d |-> [s.d EXCEPT !.windowDamagedConnection = FALSE,
                       !.windowDeletedConnection = FALSE],
     fx |-> [s.fx EXCEPT
               !.windowDamaged = IF s.d.windowDamagedConnection THEN @ - 1 ELSE @,
               !.windowDeleted = IF s.d.windowDeletedConnection THEN @ - 1 ELSE @]]

\* DeformEffectPrivate::maybeRender on one DeformOffscreenData
maybeRender(data) == [data EXCEPT !.isDirty = FALSE]

\* a variant of redirect that connects on every new window
redirect_alwaysConnects(s, w) ==
    IF w \in DOMAIN s.d.windows
    THEN s
    ELSE LET s1 == setupConnections(
                     [d |-> [s.d EXCEPT !.windows = Insert(@, w, NewOffscreenData)],
                      fx |-> [s.fx EXCEPT !.offscreen[w] = @ + 1]])
         IN  IF ~s1.d.live
             THEN [s1 EXCEPT !.d.windows[w] = maybeRender(@)]
             ELSE s1

\* DeformEffect::redirect.  No key of d.windows maps to null: operator[]
\* inserts one only in the call that at once points it to new data.
redirect(s, w) ==
    IF w \in DOMAIN s.d.windows
    THEN s
    ELSE LET s1 == [d |-> [s.d EXCEPT !.windows = Insert(@, w, NewOffscreenData)],
                    fx |-> [s.fx EXCEPT !.offscreen[w] = @ + 1]]
             s2 == IF Cardinality(DOMAIN s1.d.windows) = 1
                   THEN setupConnections(s1)
                   ELSE s1
         IN  IF ~s2.d.live
             THEN [s2 EXCEPT !.d.windows[w] = maybeRender(@)]
             ELSE s2

\* DeformEffect::unredirect
unredirect(s, w) ==
    LET s1 == IF w \in DOMAIN s.d.windows
              THEN [d |-> [s.d EXCEPT !.windows = Take(@, w)],
                    fx |-> [s.fx EXCEPT !.offscreen[w] = @ - 1]]
              ELSE s
    IN  IF DOMAIN s1.d.windows = {}
        THEN destroyConnections(s1)
        ELSE s1

\* DeformEffect::handleWindowDamaged
handleWindowDamaged(s, w) ==
    IF w \in DOMAIN s.d.windows
    THEN [s EXCEPT !.d.windows[w].isDirty = TRUE]
    ELSE s

\* DeformEffect::handleWindowDeleted
handleWindowDeleted(s, w) == unredirect(s, w)

\* DeformEffect::drawWindow, as far as it changes the offscreen data
drawWindow(s, w) ==
    IF w \in DOMAIN s.d.windows
    THEN [s EXCEPT !.d.windows[w] = maybeRender(@)]
    ELSE s

Deform == [d |-> d, fx |-> effects]

\* ret.arg: whether the window was redirected when the operation began
InstallDeform(s, op, w) ==
    /\ d' = s.d
    /\ effects' = s.fx
    /\ ret' = [Result(op, w, TRUE) EXCEPT !.arg = w \in DOMAIN d.windows]
    /\ UNCHANGED <<obj, log, strong, held, m_currentBuffer, m_nextBuffer, superseded>>

\* effect->setLive(live), allowed while no window is redirected
SetLive(live) ==
    /\ DOMAIN d.windows = {}
    /\ InstallDeform([d |-> [d EXCEPT !.live = live], fx |-> effects], "setLive", NULL)

\* effect->redirect(window)
Redirect(w) ==
    /\ effects.exists[w]
    /\ InstallDeform(redirect(Deform, w), "redirect", w)

\* effect->unredirect(window)
Unredirect(w) ==
    /\ effects.exists[w]
    /\ InstallDeform(unredirect(Deform, w), "unredirect", w)

\* effect->drawWindow(window, ...)
DrawWindow(w) ==
    /\ effects.exists[w]
    /\ InstallDeform(drawWindow(Deform, w), "drawWindow", w)

\* EffectsHandler::windowDamaged(window) is emitted
WindowDamaged(w) ==
    /\ effects.exists[w]
    /\ InstallDeform(IF effects.windowDamaged > 0
                     THEN handleWindowDamaged(Deform, w)
                     ELSE Deform,
                     "windowDamaged", w)

\* EffectsHandler::windowDeleted(window) is emitted: the window is gone
WindowDeleted(w) ==
    /\ effects.exists[w]
    /\ LET s == [d |-> d, fx |-> [effects EXCEPT !.exists[w] = FALSE]]
       IN  InstallDeform(IF effects.windowDeleted > 0
                         THEN handleWindowDeleted(s, w)
                         ELSE s,
                         "windowDeleted", w)

\* ---------------------------------------------------------- specifications
Planes == [count : 1..MaxPlanes, modifier : Modifiers, offset : {0, 1}]
Outcomes == [mod : BOOLEAN, fb2 : BOOLEAN, fb : BOOLEAN]
MapFlags == {1, 2}
MapAddresses == {NULL, 1, 2}

InitOver(ids) ==
    /\ obj = [b \in ids |-> NoObject]
    /\ log = [b \in ids |-> << >>]
    /\ strong = [b \in ids |-> 0]
    /\ held = [b \in ids |-> FALSE]
    /\ m_currentBuffer = NULL
    /\ m_nextBuffer = NULL
    /\ ret = Result("none", NULL, TRUE)
    /\ superseded = {}
    /\ d = NoDeform
    /\ effects = NoEffects

\* the life of buffer objects, from construction to destruction
Init == InitOver({1})

Next ==
    \/ \E b \in Ids, gpu \in Gpus, f \in Formats, m \in Modifiers, p \in BOOLEAN,
          r \in Outcomes :
          ConstructPool(b, gpu, f, m, p, r)
    \/ \E b \in Ids, gpu \in Gpus, f \in Formats, pl \in Planes,
          imp \in {"ok"} \cup Errnos, p \in BOOLEAN, r \in Outcomes :
          ConstructImport(b, gpu, f, pl, imp, p, r)
    \/ \E b \in Ids, f \in MapFlags, a \in MapAddresses : Map(b, f, a)
    \/ \E b \in Ids : ReleaseBuffer(b)
    \/ \E b \in Ids : DropOwner(b)

Spec == Init /\ [][Next]_vars

\* registered and unregistered pool buffers and imported client buffers,
\* handed to the slot of one CRTC by owners that drop them at any time
SlotInit == InitOver(1..NumBuffers)

SlotPlanes == [count : {1}, modifier : {DRM_FORMAT_MOD_INVALID}, offset : {0}]
SlotOutcomes == [mod : {FALSE}, fb2 : BOOLEAN, fb : {FALSE}]

SlotNext ==
    \/ \E b \in Ids, r \in SlotOutcomes :
          ConstructPool(b, 2, "XR24", DRM_FORMAT_MOD_INVALID, TRUE, r)
    \/ \E b \in Ids, pl \in SlotPlanes :
          ConstructImport(b, 2, "XR24", pl, "ok", TRUE,
                          [mod |-> FALSE, fb2 |-> TRUE, fb |-> FALSE])
    \/ \E b \in Ids : DropOwner(b)
    \/ \E b \in Ids \cup {NULL} : SetNext(b)
    \/ FlipBuffer

SlotSpec == SlotInit /\ [][SlotNext]_vars

\* buffers with and without native handle compared with each other, with a
\* buffer of another kind and with no buffer
ModeInit == InitOver(1..NumBuffers)

ModeNext ==
    \/ \E b \in Ids :
          ConstructPool(b, 2, "XR24", DRM_FORMAT_MOD_INVALID, TRUE,
                        [mod |-> FALSE, fb2 |-> TRUE, fb |-> FALSE])
    \/ \E b \in Ids, pl \in SlotPlanes, imp \in {"ok", "EINVAL"} :
          ConstructImport(b, 2, "XR24", pl, imp, TRUE,
                          [mod |-> FALSE, fb2 |-> TRUE, fb |-> FALSE])
    \/ \E b \in Ids : ReleaseBuffer(b)
    \/ \E b \in Ids : DropOwner(b)
    \/ \E a \in Ids, b \in Ids \cup {NULL, OtherBuffer} : NeedsModeChange(a, b)

ModeSpec == ModeInit /\ [][ModeNext]_vars

\* one DeformEffect and the windows it redirects
DeformInit == InitOver({1})

DeformNext ==
    \/ \E live \in BOOLEAN : SetLive(live)
    \/ \E w \in Windows : Redirect(w)
    \/ \E w \in Windows : Unredirect(w)
    \/ \E w \in Windows : DrawWindow(w)
    \/ \E w \in Windows : WindowDamaged(w)
    \/ \E w \in Windows : WindowDeleted(w)

DeformSpec == DeformInit /\ [][DeformNext]_vars


\* ------------------------------------------------------------- properties
Calls(l, names) == SelectSeq(l, LAMBDA e : e.call \in names)
Count(l, name) == Len(Calls(l, {name}))
Index(l, name) == CHOOSE i \in 1..Len(l) : l[i].call = name

RegistrationCalls == {"drmModeAddFB2WithModifiers", "drmModeAddFB2", "drmModeAddFB"}
Tiers == <<"drmModeAddFB2WithModifiers", "drmModeAddFB2", "drmModeAddFB">>
\* initialize found a native handle and went on to register it
Initialized(b) == Count(log[b], "gbm_bo_set_user_data") > 0
\* the device supports modifier-aware registration and plane 0's modifier is valid
ModifierAware(o) ==
    modifier0(o) # DRM_FORMAT_MOD_INVALID /\ addFB2ModifiersSupported(o.m_gpu)

C2_DeregisteredExactlyOnce ==
    \A b \in Ids :
        LET rm == Calls(log[b], {"drmModeRmFB"})
            reg == SelectSeq(Calls(log[b], RegistrationCalls), LAMBDA e : e.ok)
        IN  /\ (obj[b].m_bufferId # 0) = (Len(reg) > 0)
            /\ obj[b].life # "destroyed" => Len(rm) = 0
            /\ obj[b].life = "destroyed" /\ obj[b].m_bufferId = 0 => Len(rm) = 0
            /\ obj[b].life = "destroyed" /\ obj[b].m_bufferId # 0 =>
                  /\ Len(rm) = 1
                  /\ rm[1].arg = obj[b].m_bufferId
                  /\ Len(reg) = 1
                  /\ rm[1].fd = reg[1].fd

\* a registered buffer destroyed after it was mapped and explicitly released
C2_Witness ==
    \E b \in Ids :
        /\ obj[b].life = "destroyed" /\ obj[b].m_bufferId # 0
        /\ Count(log[b], "gbm_bo_unmap") = 1
        /\ Count(log[b], "drmModeRmFB") = 1
        /\ Index(log[b], "gbm_bo_unmap") < Index(log[b], "drmModeRmFB")

\* C3: a buffer built from a client buffer takes one reference at
\* construction, never drops more than one, and has dropped exactly one once
\* it is destroyed, whether the import succeeded or not.
C3_ClientBufferReleasedOnce ==
    \A b \in Ids :
        LET imported == Len(Calls(log[b], {"GBM_BO_IMPORT_FD", "GBM_BO_IMPORT_FD_MODIFIER"})) > 0
        IN  /\ imported =>
                  /\ Count(log[b], "ref") = 1
                  /\ Count(log[b], "unref") <= 1
                  /\ obj[b].m_clientBuffer = (Count(log[b], "unref") = 0)
                  /\ obj[b].life = "destroyed" => Count(log[b], "unref") = 1
            /\ ~imported => Count(log[b], "ref") = 0 /\ Count(log[b], "unref") = 0

\* a destroyed buffer whose import had failed
C3_Witness ==
    \E b \in Ids :
        /\ obj[b].life = "destroyed"
        /\ \E i \in 1..Len(log[b]) :
              log[b][i].call \in {"GBM_BO_IMPORT_FD", "GBM_BO_IMPORT_FD_MODIFIER"} /\ ~log[b][i].ok
        /\ Count(log[b], "unref") = 1
        /\ ret.op = "drop"


Last(l) == l[Len(l)]
Disposals == {"surface_releaseBuffer", "gbm_bo_destroy"}
Imported(b) == Len(Calls(log[b], {"GBM_BO_IMPORT_FD", "GBM_BO_IMPORT_FD_MODIFIER"})) > 0

\* C7 as stated: a map() call on a buffer object without native handle
\* returns failure and issues no driver mapping call.
C7_MapOnEmptyFails ==
    ret.op = "map" /\ ~obj[ret.buf].m_bo =>
        /\ ret.val = FALSE
        /\ Len(log[ret.buf]) > 0 => Last(log[ret.buf]).call # "gbm_bo_map"

\* C8: map() on a buffer object that records a mapping returns success,
\* issues no call and changes nothing of the object, whatever its flags; at
\* most one mapping call ever succeeded, and the recorded address and handle
\* are the ones it returned.
C8_MapIdempotent ==
    /\ [](\A b \in Ids :
            LET m == SelectSeq(Calls(log[b], {"gbm_bo_map"}), LAMBDA e : e.ok)
            IN  /\ Len(m) <= 1
                /\ (obj[b].m_data # NULL) = (Len(m) = 1)
                /\ (obj[b].m_mapping # NULL) = (Len(m) = 1))
    /\ [][\A b \in Ids, f \in MapFlags, a \in MapAddresses :
            Map(b, f, a) /\ obj[b].m_data # NULL =>
                /\ ret'.val = TRUE
                /\ log'[b] = log[b]
                /\ obj'[b] = obj[b]]_vars

\* a second map(), with other flags than the call that mapped, returned success
C8_Witness ==
    /\ ret.op = "map" /\ ret.val = TRUE /\ ret.arg = 2
    /\ obj[ret.buf].m_bo
    /\ \E i \in 1..Len(log[ret.buf]) :
          /\ log[ret.buf][i].call = "gbm_bo_map"
          /\ log[ret.buf][i].ok
          /\ log[ret.buf][i].arg = 1
    /\ Count(log[ret.buf], "gbm_bo_map") = 1

\* a release ran and left the object without native handle and client buffer
Released(o) == o.life = "alive" /\ ~o.m_bo /\ ~o.m_clientBuffer

\* C9: the native handle is disposed of at most once, through the pool for
\* a pool buffer and by gbm_bo_destroy otherwise; the client buffer is
\* dropped and the mapping undone at most once; a release of a released
\* object issues no call, and its destruction issues nothing but the
\* deregistration.
C9_ReleaseIdempotent ==
    /\ [](\A b \in Ids :
            LET ds == Calls(log[b], Disposals)
            IN  /\ Len(ds) <= 1
                /\ Count(log[b], "unref") <= 1
                /\ Count(log[b], "gbm_bo_unmap") <= 1
                /\ obj[b].m_bo => Len(ds) = 0
                /\ Initialized(b) /\ ~obj[b].m_bo =>
                      /\ Len(ds) = 1
                      /\ ds[1].call = IF Imported(b) THEN "gbm_bo_destroy"
                                      ELSE "surface_releaseBuffer")
    /\ [][\A b \in Ids :
            /\ ReleaseBuffer(b) /\ Released(obj[b]) => log'[b] = log[b] /\ obj'[b] = obj[b]
            /\ DropOwner(b) /\ Released(obj[b]) =>
                  \A i \in (Len(log[b]) + 1)..Len(log'[b]) : log'[b][i].call = "drmModeRmFB"]_vars

\* a mapped pool buffer that was released and then destroyed: the release
\* run by the destructor came second
C9_Witness ==
    \E b \in Ids :
        /\ obj[b].life = "destroyed" /\ ~Imported(b)
        /\ Count(log[b], "gbm_bo_unmap") = 1
        /\ Count(log[b], "surface_releaseBuffer") = 1
        /\ Count(log[b], "drmModeRmFB") = 1
        /\ Index(log[b], "surface_releaseBuffer") < Index(log[b], "drmModeRmFB")

\* C10 as stated: a destroyed buffer that had a framebuffer identifier
\* deregistered it before its native handle was returned to the pool or
\* destroyed.
C10_DeregisterBeforeRelease ==
    \A b \in Ids :
        obj[b].life = "destroyed" /\ obj[b].m_bufferId # 0 =>
            /\ Count(log[b], "drmModeRmFB") = 1
            /\ \A i \in 1..Len(log[b]) :
                  log[b][i].call \in Disposals => Index(log[b], "drmModeRmFB") < i


\* C4: the pending buffer is never one that a later set-next replaced; a
\* set-next that replaces a pending buffer by another one queues the new
\* buffer and drops one owner of the old one; "current" changes only by a
\* flip, to the buffer that was pending, which is not a replaced one.
C4_OnlyLastNextPromoted ==
    /\ [](m_nextBuffer \notin superseded)
    /\ [][/\ \A buffer \in Ids \cup {NULL} :
                SetNext(buffer) /\ m_nextBuffer # NULL /\ m_nextBuffer # buffer =>
                    /\ m_nextBuffer' = buffer
                    /\ m_nextBuffer \in superseded'
                    /\ strong'[m_nextBuffer] = strong[m_nextBuffer] - 1
          /\ FlipBuffer /\ m_nextBuffer # NULL => m_currentBuffer' = m_nextBuffer
          /\ m_currentBuffer' # m_currentBuffer =>
                /\ m_currentBuffer' = m_nextBuffer
                /\ m_currentBuffer' \notin superseded]_vars

\* set-next N1, set-next N2, flip: N2 is shown, N1 was replaced
C4_Witness ==
    /\ ret.op = "flipBuffer" /\ ret.val
    /\ m_currentBuffer # NULL /\ m_currentBuffer = ret.buf
    /\ superseded # {}
    /\ m_currentBuffer \notin superseded

\* C5: a set-next that replaces a pending buffer by another one leaves
\* "current" alone and drops one owner of the old buffer; if owners remain
\* the old buffer is untouched, otherwise it is destroyed: its framebuffer
\* is deregistered first and its native handle disposed of last.
C5_SetNextReleasesPending ==
    [][\A buffer \in Ids \cup {NULL} :
          SetNext(buffer) /\ m_nextBuffer # NULL /\ m_nextBuffer # buffer =>
              LET old == m_nextBuffer
                  added == SubSeq(log'[old], Len(log[old]) + 1, Len(log'[old]))
              IN  /\ m_currentBuffer' = m_currentBuffer
                  /\ m_nextBuffer' = buffer
                  /\ strong'[old] = strong[old] - 1
                  /\ strong[old] > 1 => obj'[old] = obj[old] /\ added = << >>
                  /\ strong[old] = 1 =>
                        /\ obj'[old].life = "destroyed"
                        /\ ~obj'[old].m_bo
                        /\ obj[old].m_bufferId # 0 =>
                              /\ Len(added) >= 1
                              /\ added[1].call = "drmModeRmFB"
                              /\ Count(added, "drmModeRmFB") = 1
                        /\ obj[old].m_bo =>
                              /\ Len(added) >= 1
                              /\ Last(added).call \in Disposals]_vars

\* a set-next replaced a pending registered buffer that nobody else owned,
\* while another buffer was shown
C5_Witness ==
    /\ ret.op = "setNext" /\ ret.arg # NULL /\ ret.arg # ret.buf
    /\ m_currentBuffer # NULL /\ m_currentBuffer # ret.arg
    /\ obj[ret.arg].life = "destroyed"
    /\ Count(log[ret.arg], "drmModeRmFB") = 1
    /\ Last(log[ret.arg]).call \in Disposals

\* C6: a flip with a pending buffer makes it "current", drops one owner of
\* the buffer shown before and leaves "next" empty; a flip without pending
\* buffer changes neither the slot nor any buffer.
C6_Flip ==
    [][FlipBuffer =>
          IF m_nextBuffer # NULL
          THEN /\ m_currentBuffer' = m_nextBuffer
               /\ m_nextBuffer' = NULL
               /\ m_currentBuffer # NULL =>
                     strong'[m_currentBuffer] = strong[m_currentBuffer] - 1
               /\ m_nextBuffer # m_currentBuffer =>
                     strong'[m_nextBuffer] = strong[m_nextBuffer]
          ELSE UNCHANGED <<m_currentBuffer, m_nextBuffer, obj, log, strong>>]_vars

\* a flip promoted the pending buffer and destroyed the buffer shown before
C6_Witness ==
    /\ ret.op = "flipBuffer" /\ ret.val
    /\ ret.arg # NULL /\ ret.arg # m_currentBuffer
    /\ m_currentBuffer = ret.buf /\ m_nextBuffer = NULL
    /\ obj[ret.arg].life = "destroyed"


\* every registration call that buffer b issued failed
AllRegistrationsFailed(b) ==
    /\ Initialized(b)
    /\ \A i \in 1..Len(log[b]) : log[b][i].call \in RegistrationCalls => ~log[b][i].ok

\* the diagnostic buffer b has to report: its device, pixel format and
\* plane-0 modifier
Diagnostic(b) ==
    E("qCCritical", fd(obj[b].m_gpu),
      [format |-> obj[b].m_format, modifier |-> modifier0(obj[b])], TRUE)

\* C11 as stated: a buffer with native handle, pool-allocated or imported,
\* whose registration calls all failed has reported the diagnostic, has no
\* framebuffer identifier and keeps its native handle until it is released.
C11_FailureReported ==
    \A b \in Ids :
        AllRegistrationsFailed(b) =>
            /\ Calls(log[b], {"qCCritical"}) = <<Diagnostic(b)>>
            /\ obj[b].m_bufferId = 0
            /\ Calls(log[b], Disposals) = << >> => obj[b].m_bo

\* C11 amended: the diagnostic is reported for pool-allocated buffers only,
\* an imported buffer whose registration calls all failed reports nothing;
\* both have no framebuffer identifier and keep the native handle until it
\* is released; a buffer with a successful registration reports nothing.
C11_FailureReportedForPool ==
    \A b \in Ids :
        /\ AllRegistrationsFailed(b) =>
              /\ Calls(log[b], {"qCCritical"}) =
                    IF Imported(b) THEN << >> ELSE <<Diagnostic(b)>>
              /\ obj[b].m_bufferId = 0
              /\ Calls(log[b], Disposals) = << >> => obj[b].m_bo
        /\ ~AllRegistrationsFailed(b) => Calls(log[b], {"qCCritical"}) = << >>

\* an imported buffer that failed the multi-plane and the single-plane call
C11_Witness ==
    \E b \in Ids :
        /\ AllRegistrationsFailed(b) /\ Imported(b)
        /\ Count(log[b], "drmModeAddFB") = 1
        /\ obj[b].m_bo /\ obj[b].life = "alive"
        /\ obj[b].m_format = "NV12"


\* C12 as stated: the slot never has a pending buffer while "current" is
\* empty.
C12_ThreeStates ==
    ~(m_nextBuffer # NULL /\ m_currentBuffer = NULL)

\* C12 amended: the slot has a fourth state, a pending buffer with "current"
\* empty, entered by a set-next on the empty slot; once "current" is
\* populated no set-next and no flip empties it again, so the fourth state
\* is not entered after the first flip.
C12_FourStates ==
    [][/\ m_currentBuffer # NULL => m_currentBuffer' # NULL
       /\ (m_nextBuffer' # NULL /\ m_currentBuffer' = NULL /\ m_nextBuffer = NULL) =>
             /\ m_currentBuffer = NULL
             /\ SetNext(m_nextBuffer')
       /\ (m_nextBuffer # NULL /\ m_currentBuffer = NULL /\ FlipBuffer) =>
             /\ m_currentBuffer' = m_nextBuffer
             /\ m_nextBuffer' = NULL]_vars

\* a flip without pending buffer on a slot that shows a buffer
C12_Witness ==
    /\ ret.op = "flipBuffer" /\ ~ret.val
    /\ m_currentBuffer # NULL /\ m_nextBuffer = NULL


\* C13 as stated: a mapped buffer object undoes its mapping before it
\* disposes of the native handle, and a buffer object without native handle
\* records no mapping.
C13_MappingWithinHandle ==
    \A b \in Ids :
        /\ \A i \in 1..Len(log[b]) :
              (log[b][i].call \in Disposals
                 /\ \E j \in 1..(i - 1) : log[b][j].call = "gbm_bo_map" /\ log[b][j].ok) =>
                  \E k \in 1..(i - 1) : log[b][k].call = "gbm_bo_unmap"
        /\ obj[b].life = "alive" /\ ~obj[b].m_bo => mappedData(obj[b]) = NULL


ImportCalls == {"GBM_BO_IMPORT_FD", "GBM_BO_IMPORT_FD_MODIFIER"}

\* C14: the construction of a buffer from a client buffer issues exactly one
\* import call, on the device it was given and for scanout use: the
\* multi-plane import with modifier if the client buffer has more than one
\* plane, a valid modifier on its first plane or a non-zero offset of its
\* first plane, and the single-plane import otherwise.
C14_ImportPath ==
    ret.op = "import" =>
        LET pl == ret.arg.planes
            c == Calls(log[ret.buf], ImportCalls)
        IN  /\ Len(c) = 1
            /\ c[1].call =
                  IF pl.count > 1 \/ pl.modifier # DRM_FORMAT_MOD_INVALID \/ pl.offset # 0
                  THEN "GBM_BO_IMPORT_FD_MODIFIER"
                  ELSE "GBM_BO_IMPORT_FD"
            /\ c[1].fd = fd(obj[ret.buf].m_gpu)
            /\ c[1].arg.usage = "GBM_BO_USE_SCANOUT"
            /\ c[1].arg.num_fds = pl.count

\* a single plane without modifier went through the multi-plane import: its
\* offset is not zero
C14_Witness ==
    \E b \in Ids :
        /\ ret.op = "import" /\ ret.buf = b /\ ret.arg.planes.offset # 0
        /\ obj[b].m_modifier = DRM_FORMAT_MOD_INVALID
        /\ \E i \in 1..Len(log[b]) :
              /\ log[b][i].call = "GBM_BO_IMPORT_FD_MODIFIER"
              /\ log[b][i].arg.num_fds = 1

\* C15: the construction of a buffer from a client buffer logs a warning
\* exactly when the import fails for another reason than EINVAL; it always
\* yields a live object, which has a native handle exactly when the import
\* succeeded and otherwise issues no registration call.
C15_ImportWarning ==
    ret.op = "import" =>
        LET b == ret.buf
            imp == ret.arg.imp
        IN  /\ Count(log[b], "qCWarning") = IF imp \in {"ok", "EINVAL"} THEN 0 ELSE 1
            /\ obj[b].life = "alive"
            /\ obj[b].m_bo = (imp = "ok")
            /\ imp # "ok" =>
                  /\ Calls(log[b], RegistrationCalls) = << >>
                  /\ obj[b].m_bufferId = 0
                  /\ Last(log[b]).call \in ImportCalls \cup {"qCWarning"}

\* a live, empty buffer whose import failed without warning
C15_Witness ==
    \E b \in Ids :
        /\ ret.op = "import" /\ ret.buf = b /\ ret.arg.imp = "EINVAL"
        /\ obj[b].life = "alive" /\ ~obj[b].m_bo /\ obj[b].m_clientBuffer
        /\ Count(log[b], "qCWarning") = 0
        /\ \E i \in 1..Len(log[b]) : log[b][i].call \in ImportCalls /\ ~log[b][i].ok


\* C16: needsModeChange(a, b) is true when b is no DrmGbmBuffer; otherwise
\* it is true exactly when one of a and b has a native buffer and the other
\* has none, so it gives the same answer with a and b exchanged and false
\* for a buffer compared with itself.
C16_NeedsModeChange ==
    /\ ret.op = "needsModeChange" =>
          ret.val = IF ret.arg \in Ids
                    THEN \/ obj[ret.buf].m_bo /\ ~obj[ret.arg].m_bo
                         \/ ~obj[ret.buf].m_bo /\ obj[ret.arg].m_bo
                    ELSE TRUE
    /\ \A a, b \in Ids :
          Alive(a) /\ Alive(b) =>
              /\ needsModeChange(a, b) = needsModeChange(b, a)
              /\ ~needsModeChange(a, a)
              /\ needsModeChange(a, NULL) /\ needsModeChange(a, OtherBuffer)

\* a buffer with native buffer compared with an empty one, and a buffer
\* compared with a buffer of another kind
C16_Witness ==
    /\ ret.op = "needsModeChange" /\ ret.val
    /\ ret.arg \in Ids /\ ret.arg # ret.buf
    /\ obj[ret.buf].m_bo /\ ~obj[ret.arg].m_bo


\* C17: a buffer for which the modifier-aware condition is false never
\* issues the modifier-aware call; it issues the plain multi-plane call
\* first and the single-plane call exactly when the multi-plane call failed,
\* with depth 24, 32 bits per pixel and the stride and handle of plane 0,
\* whatever its pixel format; the identifier is set exactly when the last
\* call succeeded.
C17_LegacyFallback ==
    \A b \in Ids :
        Initialized(b) /\ ~ModifierAware(obj[b]) =>
            LET c == Calls(log[b], RegistrationCalls)
            IN  /\ Len(c) \in 1..2
                /\ c[1].call = "drmModeAddFB2"
                /\ c[1].fd = fd(obj[b].m_gpu)
                /\ (Len(c) = 2) = ~c[1].ok
                /\ Len(c) = 2 =>
                      /\ c[2].call = "drmModeAddFB"
                      /\ c[2].fd = fd(obj[b].m_gpu)
                      /\ c[2].arg = [depth |-> 24, bpp |-> 32, stride |-> 1,
                                     handle |-> GemHandle(b)]
                /\ (obj[b].m_bufferId # 0) = c[Len(c)].ok

\* a buffer of a format that is not 32 bits per pixel, with a valid modifier
\* on a device with modifier support but without per-plane handle,
\* registered by the single-plane call
C17_Witness ==
    \E b \in Ids :
        /\ Initialized(b) /\ obj[b].m_format = "NV12"
        /\ ~obj[b].plane0 /\ obj[b].m_modifier # DRM_FORMAT_MOD_INVALID
        /\ addFB2ModifiersSupported(obj[b].m_gpu)
        /\ \E i \in 1..Len(log[b]) : log[b][i].call = "drmModeAddFB" /\ log[b][i].ok
        /\ obj[b].m_bufferId # 0


\* the number of pointers to buffer b that the slot holds
SlotOwners(b) ==
    (IF m_currentBuffer = b THEN 1 ELSE 0) + (IF m_nextBuffer = b THEN 1 ELSE 0)

\* C18: a buffer the slot holds as "current" or "next" is alive, owned once
\* per slot pointer besides its creator, still has its native handle and
\* has issued neither the deregistration nor a disposal of the handle,
\* whatever set-next and flip calls were made, also with the buffer that is
\* already "current" or "next".
C18_HeldBufferAlive ==
    \A b \in Ids :
        /\ strong[b] = SlotOwners(b) + (IF held[b] THEN 1 ELSE 0)
        /\ SlotOwners(b) > 0 =>
              /\ obj[b].life = "alive"
              /\ obj[b].m_bo
              /\ Count(log[b], "drmModeRmFB") = 0
              /\ Calls(log[b], Disposals) = << >>

\* set-next was called with the buffer that is already pending and that
\* only the slot owns, while the same buffer is shown
C18_Witness ==
    /\ ret.op = "setNext" /\ ret.buf # NULL /\ ret.arg = ret.buf
    /\ m_nextBuffer = ret.buf /\ m_currentBuffer = ret.buf
    /\ ~held[ret.buf] /\ strong[ret.buf] = 2
    /\ obj[ret.buf].life = "alive"


\* C19 as stated: the tag of a native handle is set only for a buffer whose
\* registration succeeded, and once a pool buffer is destroyed and its
\* handle is back in the pool the tag no longer names it.
C19_TagNamesLiveBuffer ==
    \A b \in Ids :
        /\ obj[b].userData # NULL => obj[b].m_bufferId # 0
        /\ (obj[b].life = "destroyed" /\ Count(log[b], "surface_releaseBuffer") = 1) =>
              obj[b].userData = NULL

\* the windows the DeformEffect redirects
Redirected == DOMAIN d.windows

\* C20: while at least one window is redirected the effect holds exactly one
\* connection to the window-deleted signal and, in live mode only, exactly
\* one to the window-damaged signal; while none is redirected it holds
\* neither.  Every redirected window exists and has exactly one
\* DeformOffscreenData, every other window has none.  A redirect of a
\* redirected window changes nothing; an unredirect or the deletion of a
\* redirected window removes it from the set and frees its data.
C20_DeformConnections ==
    /\ [](/\ effects.windowDeleted = (IF Redirected # {} THEN 1 ELSE 0)
          /\ d.windowDeletedConnection = (Redirected # {})
          /\ effects.windowDamaged = (IF Redirected # {} /\ d.live THEN 1 ELSE 0)
          /\ d.windowDamagedConnection = (Redirected # {} /\ d.live)
          /\ \A w \in Windows :
                /\ effects.offscreen[w] = (IF w \in Redirected THEN 1 ELSE 0)
                /\ w \in Redirected => effects.exists[w])
    /\ [][/\ ret'.op = "redirect" /\ ret'.arg => d' = d /\ effects' = effects
          /\ ret'.op = "redirect" => ret'.buf \in DOMAIN d'.windows
          /\ ret'.op \in {"unredirect", "windowDeleted"} =>
                /\ ret'.buf \notin DOMAIN d'.windows
                /\ effects'.offscreen[ret'.buf] = 0
                /\ DOMAIN d'.windows = Redirected \ {ret'.buf}]_vars

\* a redirected window was deleted while another stays redirected
C20_Witness ==
    /\ ret.op = "windowDeleted"
    /\ ret.arg
    /\ ~effects.exists[ret.buf]
    /\ Redirected # {}
    /\ effects.windowDeleted = 1

====
